---- MODULE Spec2Model ----
(***************************************************************************)
(* Model of web_ui.py: the Boltzgen web station.                           *)
(*   - run_boltzgen_task: the job pipeline (workspace, copy, specification,*)
(*     subprocess, result location, rendering), several jobs interleaved   *)
(*   - get_interactive_3dmol_iframe: the renderer, its escaping of the     *)
(*     structure text and the hover callbacks of the page it emits         *)
(*   - generate_config_yaml: the hotspot annotation                        *)
(***************************************************************************)
EXTENDS Integers, Sequences, FiniteSets, TLC

VARIABLES
    jobs,           \* the calls of run_boltzgen_task: position, locals, result
    fs,             \* gradio_workspace: the job directories by job id
    preview,        \* what the upload preview last put into output_viewer
    atomLabel,      \* atom.label of every atom of the rendered structure
    viewerLabels,   \* the labels live in the 3Dmol viewer
    labelCount,     \* labels created so far by viewer.addLabel
    event,          \* the last hover event and what it found
    pdb_file,       \* the characters of the structure file on disk
    raw_pdb,        \* f.read()
    escaped_pdb,    \* the payload between the quotes of pdbData
    render_pc,      \* position inside get_interactive_3dmol_iframe
    hotspots_text,  \* the Hotspots textbox
    is_cyclic,      \* the Cyclic checkbox
    config_data     \* what generate_config_yaml dumps

vars == <<jobs, fs, preview, atomLabel, viewerLabels, labelCount, event,
          pdb_file, raw_pdb, escaped_pdb, render_pc,
          hotspots_text, is_cyclic, config_data>>

jobVars == <<jobs, fs>>
hoverVars == <<atomLabel, viewerLabels, labelCount, event>>
escapeVars == <<pdb_file, raw_pdb, escaped_pdb, render_pc>>
configVars == <<hotspots_text, is_cyclic, config_data>>

(***************************************************************************)
(* Bounds                                                                  *)
(***************************************************************************)
\* concurrent calls of run_boltzgen_task
NumJobs == 2
\* values the 8 hex digits of uuid4 are drawn from
NumIds == 2
\* atoms of the rendered structure
NumAtoms == 3
\* labels the viewer creates before the model stops creating more
MaxLabels == 4
\* length of the structure text and of the hotspot text
MaxLen == 3

Jobs == 1..NumJobs
JobIds == 1..NumIds

(***************************************************************************)
(* Files                                                                   *)
(***************************************************************************)
\* Python's None where a file or a path is expected
None == [stem |-> "", ext |-> ""]

\* a directory that does not exist
Absent == [exists |-> FALSE, files |-> {}]

Dir(S) == [exists |-> TRUE, files |-> S]

\* gr.File(file_types=[".pdb", ".cif"]): what a user can upload
Uploads == {[stem |-> "target", ext |-> "pdb"], [stem |-> "target", ext |-> "cif"]}

\* what the opaque tool may leave in an output directory
OutFiles == {[stem |-> "rank1", ext |-> "pdb"], [stem |-> "rank1", ext |-> "cif"],
             [stem |-> "metrics", ext |-> "csv"]}

\* the tool leaves at most this many files in one output directory
MaxOutFiles == 1

DirContents == {S \in SUBSET OutFiles : Cardinality(S) <= MaxOutFiles}

\* a job directory that does not exist
NoJobDir == [exists |-> FALSE, inputs |-> {}, yaml |-> 0, final |-> Absent, inter |-> Absent]

\* job_dir.mkdir(exist_ok=True): an existing directory is accepted as it is
mkdir(d) == [d EXCEPT !.exists = TRUE]

\* Path.glob("*.<ext>") on a directory; a missing directory yields nothing
glob(d, ext) == IF d.exists THEN {f \in d.files : f.ext = ext} ELSE {}

\* a variant that falls back whenever the primary directory holds no file
final_dir_WhenEmpty(jd) == IF jd.final.exists /\ jd.final.files # {} THEN jd.final ELSE jd.inter

\* final_dir = job_dir / "final_ranked_designs"; if not final_dir.exists(): ...
final_dir(jd) == IF jd.final.exists THEN jd.final ELSE jd.inter

\* every enumeration order of a set of files
Orders(S) == {s \in [1..Cardinality(S) -> S] : \A i, k \in 1..Cardinality(S) : s[i] = s[k] => i = k}

(***************************************************************************)
(* get_interactive_3dmol_iframe                                            *)
(***************************************************************************)
NoViewer == [outcome |-> "return", kind |-> "None"]

\* the except branch: a red div with the error text
ErrorFragment(file) == [outcome |-> "return", kind |-> "error", file |-> file]

\* viewer.addModel(pdbData, "pdb")
addModelFormat(file) == "pdb"

\* a variant without the try/except around open and read
get_interactive_3dmol_iframe_Uncaught(pdb_path, readOk) ==
    IF pdb_path = None THEN [outcome |-> "return", kind |-> "empty"]
    ELSE IF ~readOk THEN [outcome |-> "raise", kind |-> "exception"]
    ELSE [outcome |-> "return", kind |-> "iframe", file |-> pdb_path,
          format |-> addModelFormat(pdb_path)]

\* the renderer: "" without a path, the iframe when the file was read, the
\* error fragment when open or read raised
get_interactive_3dmol_iframe(pdb_path, readOk) ==
    IF pdb_path = None THEN [outcome |-> "return", kind |-> "empty"]
    ELSE IF ~readOk THEN ErrorFragment(pdb_path)
    ELSE [outcome |-> "return", kind |-> "iframe", file |-> pdb_path,
          format |-> addModelFormat(pdb_path)]

(***************************************************************************)
(* run_boltzgen_task                                                       *)
(***************************************************************************)
IdleJob == [pc |-> "idle", input_file |-> None, job_id |-> 0, trace |-> <<>>,
            io |-> [copy |-> "none", spec |-> "none", launch |-> "none", read |-> "none"],
            exit |-> -1, seen |-> NoJobDir, generated_files |-> <<>>,
            result |-> [returned |-> FALSE]]

\* how an operation on the file system or the process table ended
Outcome(ok) == IF ok THEN "ok" ELSE "failed"

\* return viewer, text
Return(viewer, text) == [returned |-> TRUE, viewer |-> viewer, text |-> [kind |-> text]]

\* return viewer, <text with the captured log>
ReturnLogs(viewer, text, exit) == [returned |-> TRUE, viewer |-> viewer,
                                   text |-> [kind |-> text, exit |-> exit]]

\* lines 155-157: the call starts, the job id is drawn, the directory made
Submit(j) ==
    /\ jobs[j].pc = "idle"
    /\ \E input \in Uploads \cup {None}, id \in JobIds :
          /\ jobs' = [jobs EXCEPT ![j] = [@ EXCEPT !.pc = "allocated",
                                                   !.input_file = input,
                                                   !.job_id = id]]
          /\ fs' = [fs EXCEPT ![id] = mkdir(@)]

\* lines 159-164: the input check and shutil.copy, which raises when the
\* source cannot be read
CopyInput(j) ==
    /\ jobs[j].pc = "allocated"
    /\ IF jobs[j].input_file = None
       THEN /\ jobs' = [jobs EXCEPT ![j] = [@ EXCEPT !.pc = "done",
                                 !.result = Return(NoViewer, "InputMissing")]]
            /\ UNCHANGED fs
       ELSE \E copyOk \in BOOLEAN :
              IF copyOk
              THEN /\ jobs' = [jobs EXCEPT ![j] = [@ EXCEPT !.pc = "copied",
                                        !.io.copy = "ok",
                                        !.trace = Append(@, "copy")]]
                   /\ fs' = [fs EXCEPT ![jobs[j].job_id].inputs =
                                          @ \cup {jobs[j].input_file}]
              ELSE /\ jobs' = [jobs EXCEPT ![j] = [@ EXCEPT !.pc = "raised",
                                        !.io.copy = "failed",
                                        !.trace = Append(@, "copy")]]
                   /\ UNCHANGED fs

\* a variant that swallows the exception of generate_config_yaml
AfterConfig_Swallowed(writeOk) == "configured"

\* lines 166-171: where the run goes after generate_config_yaml
AfterConfig(writeOk) == IF writeOk THEN "configured" ELSE "done"

\* lines 166-171: generate_config_yaml writes design_spec.yaml or raises
WriteConfig(j) ==
    /\ jobs[j].pc = "copied"
    /\ \E writeOk \in BOOLEAN :
          /\ jobs' = [jobs EXCEPT ![j] = [@ EXCEPT !.pc = AfterConfig(writeOk),
                           !.io.spec = Outcome(writeOk),
                           !.trace = Append(@, "spec"),
                           !.result = IF writeOk THEN @
                                      ELSE Return(NoViewer, "Config Error")]]
          /\ fs' = IF writeOk THEN [fs EXCEPT ![jobs[j].job_id].yaml = j] ELSE fs

\* what the tool may do to an output directory: create it, add files to it
ToolWrites(d) == {n \in {Dir(S) : S \in DirContents} \cup {Absent} :
                     d.exists => (n.exists /\ d.files \subseteq n.files)}

\* lines 185-189: where the run goes after subprocess.run
AfterLaunch(launchOk) == IF launchOk THEN "ran" ELSE "done"

\* lines 173-189: subprocess.run, blocking; the tool writes its output
\* directories and exits with some status, or cannot be launched
Launch(j) ==
    /\ jobs[j].pc = "configured"
    /\ \/ /\ jobs' = [jobs EXCEPT ![j] = [@ EXCEPT !.pc = AfterLaunch(FALSE),
                           !.io.launch = "failed",
                           !.trace = Append(@, "launch"),
                           !.result = Return(NoViewer, "System Error")]]
          /\ UNCHANGED fs
       \/ \E code \in {0, 1}, f \in ToolWrites(fs[jobs[j].job_id].final),
             i \in ToolWrites(fs[jobs[j].job_id].inter) :
          /\ jobs' = [jobs EXCEPT ![j] = [@ EXCEPT !.pc = AfterLaunch(TRUE),
                           !.io.launch = "ok",
                           !.trace = Append(@, "launch"),
                           !.exit = code]]
          /\ fs' = [fs EXCEPT ![jobs[j].job_id].final = f,
                              ![jobs[j].job_id].inter = i]

\* a variant that also takes a nonzero exit status for a failure
NoResults_ExitCode(job) == job.generated_files = <<>> \/ job.exit # 0

\* line 197: if not generated_files
NoResults(job) == job.generated_files = <<>>

\* lines 191-198: the result directory is chosen and globbed
Locate(j) ==
    /\ jobs[j].pc = "ran"
    /\ LET jd == fs[jobs[j].job_id]
           dir == final_dir(jd)
       IN \E pdbs \in Orders(glob(dir, "pdb")), cifs \in Orders(glob(dir, "cif")) :
            LET job == [jobs[j] EXCEPT !.generated_files = pdbs \o cifs,
                                       !.seen = jd,
                                       !.trace = Append(@, "locate")]
            IN jobs' = [jobs EXCEPT ![j] =
                 IF NoResults(job)
                 THEN [job EXCEPT !.pc = "done",
                         !.result = ReturnLogs(NoViewer, "NoResults", job.exit)]
                 ELSE [job EXCEPT !.pc = "located"]]
    /\ UNCHANGED fs

\* lines 200-202: the first file found is rendered and returned with the log
Render(j) ==
    /\ jobs[j].pc = "located"
    /\ \E readOk \in BOOLEAN :
         LET html == get_interactive_3dmol_iframe(jobs[j].generated_files[1], readOk)
         IN jobs' = [jobs EXCEPT ![j] = [@ EXCEPT
                        !.pc = IF html.outcome = "raise" THEN "raised" ELSE "done",
                        !.io.read = Outcome(readOk),
                        !.trace = Append(@, "render"),
                        !.result = IF html.outcome = "raise" THEN @
                                   ELSE ReturnLogs(html, "logs", jobs[j].exit)]]
    /\ UNCHANGED fs


\* lines 239-243: pdb_input.change, the preview of the uploaded file
Preview ==
    \E x \in Uploads \cup {None}, readOk \in BOOLEAN :
        preview' = [x |-> x, readOk |-> (x = None \/ readOk),
                    html |-> IF x # None THEN get_interactive_3dmol_iframe(x, readOk)
                             ELSE [outcome |-> "return", kind |-> "empty"]]

(***************************************************************************)
(* The hover callbacks of the emitted page (viewer.setHoverable)           *)
(***************************************************************************)
Atoms == 1..NumAtoms

\* atom.label is undefined
NoLabel == 0

\* a variant of the hover callback without its test
Unlabeled_Always(a) == TRUE

\* line 71: if(!atom.label)
Unlabeled(a) == atomLabel[a] = NoLabel

\* line 88: if(atom.label)
Labeled(a) == atomLabel[a] # NoLabel

\* the event a callback was called for, and the labels it found
Found(type, a) == [type |-> type, atom |-> a, atomLabel |-> atomLabel,
                   viewerLabels |-> viewerLabels]

\* lines 69-85: the hover callback; viewer.addLabel makes a new label object
HoverEnter(a) ==
    /\ event' = Found("enter", a)
    /\ IF Unlabeled(a)
       THEN /\ labelCount < MaxLabels
            /\ labelCount' = labelCount + 1
            /\ viewerLabels' = viewerLabels \cup {[id |-> labelCount + 1, position |-> a]}
            /\ atomLabel' = [atomLabel EXCEPT ![a] = labelCount + 1]
       ELSE UNCHANGED <<atomLabel, viewerLabels, labelCount>>

\* lines 86-92: the unhover callback; viewer.removeLabel, delete atom.label
HoverLeave(a) ==
    /\ event' = Found("leave", a)
    /\ IF Labeled(a)
       THEN /\ viewerLabels' = {l \in viewerLabels : l.id # atomLabel[a]}
            /\ atomLabel' = [atomLabel EXCEPT ![a] = NoLabel]
            /\ UNCHANGED labelCount
       ELSE UNCHANGED <<atomLabel, viewerLabels, labelCount>>

(***************************************************************************)
(* The structure text on its way into the script (lines 27-31, 55)         *)
(***************************************************************************)
BS == "\\"
SQ == "'"
CR == "\r"
LF == "\n"

\* the characters structure files are drawn from
Chars == {BS, SQ, CR, LF, "A"}

Texts(A) == UNION {[1..n -> A] : n \in 0..MaxLen}

\* open(pdb_path, "r").read(): text mode translates \r\n and \r to \n
RECURSIVE read(_)
read(bytes) ==
    IF bytes = <<>> THEN <<>>
    ELSE IF Head(bytes) = CR
         THEN IF Len(bytes) >= 2 /\ bytes[2] = LF
              THEN <<LF>> \o read(Tail(Tail(bytes)))
              ELSE <<LF>> \o read(Tail(bytes))
         ELSE <<Head(bytes)>> \o read(Tail(bytes))

\* str.replace(old, new) for a one-character old
RECURSIVE replace(_, _, _)
replace(s, old, new) ==
    IF s = <<>> THEN <<>>
    ELSE (IF Head(s) = old THEN new ELSE <<Head(s)>>) \o replace(Tail(s), old, new)

\* line 31: raw_pdb.replace("\n", "\\n").replace("'", "\\'")
escape(text) == replace(replace(text, LF, <<BS, "n">>), SQ, <<BS, SQ>>)

\* lines 27-28
ReadFile ==
    /\ render_pc = "open"
    /\ raw_pdb' = read(pdb_file)
    /\ render_pc' = "read"
    /\ UNCHANGED <<pdb_file, escaped_pdb>>

\* lines 31-55
Escape ==
    /\ render_pc = "read"
    /\ escaped_pdb' = escape(raw_pdb)
    /\ render_pc' = "embedded"
    /\ UNCHANGED <<pdb_file, raw_pdb>>

(***************************************************************************)
(* generate_config_yaml (lines 124-152)                                    *)
(***************************************************************************)
\* the characters hotspot texts are drawn from
HotspotChars == {" ", "\t", "\n", "1", ","}

\* what str.strip() strips, among HotspotChars
Whitespace == {" ", "\t", "\n"}

RECURSIVE lstrip(_)
lstrip(s) == IF s # <<>> /\ Head(s) \in Whitespace THEN lstrip(Tail(s)) ELSE s

RECURSIVE rstrip(_)
rstrip(s) == IF s # <<>> /\ s[Len(s)] \in Whitespace
             THEN rstrip(SubSeq(s, 1, Len(s) - 1)) ELSE s

\* str.strip()
strip(s) == rstrip(lstrip(s))

\* line 142: hotspots_text.replace(" ", "")
clean_hotspots(text) == replace(text, " ", <<>>)

\* lines 125-132
binder_entity(cyclic) ==
    IF cyclic THEN [protein |-> [id |-> "B", sequence |-> "8..16", cyclic |-> TRUE]]
    ELSE [protein |-> [id |-> "B", sequence |-> "8..16"]]

\* lines 134-146
target_entity(text) ==
    IF text # <<>> /\ strip(text) # <<>>
    THEN [file |-> [path |-> "target.pdb", include |-> <<"A">>,
                    binding_types |-> <<[chain |-> "A", binding |-> clean_hotspots(text)]>>]]
    ELSE [file |-> [path |-> "target.pdb", include |-> <<"A">>]]

\* lines 124-152
generate_config_yaml ==
    /\ config_data.entities = <<>>
    /\ config_data' = [entities |-> <<binder_entity(is_cyclic), target_entity(hotspots_text)>>]
    /\ UNCHANGED <<hotspots_text, is_cyclic>>

(***************************************************************************)
(* Specifications                                                          *)
(***************************************************************************)
InitJobs ==
    /\ jobs = [j \in Jobs |-> IdleJob]
    /\ fs = [id \in JobIds |-> NoJobDir]

InitPreview ==
    preview = [x |-> None, readOk |-> TRUE, html |-> [outcome |-> "return", kind |-> "empty"]]

\* the page has loaded: no atom has a label
InitHover ==
    /\ atomLabel = [a \in Atoms |-> NoLabel]
    /\ viewerLabels = {}
    /\ labelCount = 0
    /\ event = [type |-> "none", atom |-> 0, atomLabel |-> <<>>, viewerLabels |-> {}]

InitEscape ==
    /\ raw_pdb = <<>>
    /\ escaped_pdb = <<>>
    /\ render_pc = "open"

InitConfig ==
    config_data = [entities |-> <<>>]

\* the run handler, several calls at a time
Init ==
    /\ InitJobs /\ InitPreview /\ InitHover /\ InitEscape /\ InitConfig
    /\ pdb_file = <<>>
    /\ hotspots_text = <<>>
    /\ is_cyclic = FALSE

Next ==
    \/ \E j \in Jobs : Submit(j) /\ UNCHANGED <<preview, hoverVars, escapeVars, configVars>>
    \/ \E j \in Jobs : CopyInput(j) /\ UNCHANGED <<preview, hoverVars, escapeVars, configVars>>
    \/ \E j \in Jobs : WriteConfig(j) /\ UNCHANGED <<preview, hoverVars, escapeVars, configVars>>
    \/ \E j \in Jobs : Launch(j) /\ UNCHANGED <<preview, hoverVars, escapeVars, configVars>>
    \/ \E j \in Jobs : Locate(j) /\ UNCHANGED <<preview, hoverVars, escapeVars, configVars>>
    \/ \E j \in Jobs : Render(j) /\ UNCHANGED <<preview, hoverVars, escapeVars, configVars>>

Spec == Init /\ [][Next]_vars

\* both handlers of the page: the run and the upload preview
NextUI ==
    \/ Next
    \/ Preview /\ UNCHANGED <<jobVars, hoverVars, escapeVars, configVars>>

SpecUI == Init /\ [][NextUI]_vars

\* the hover callbacks on the atoms of one rendered structure
NextHover ==
    \/ \E a \in Atoms : HoverEnter(a) /\ UNCHANGED <<jobVars, preview, escapeVars, configVars>>
    \/ \E a \in Atoms : HoverLeave(a) /\ UNCHANGED <<jobVars, preview, escapeVars, configVars>>

SpecHover == Init /\ [][NextHover]_vars

\* the renderer on every structure text of at most MaxLen characters
NextEscape ==
    \/ ReadFile /\ UNCHANGED <<jobVars, preview, hoverVars, configVars>>
    \/ Escape /\ UNCHANGED <<jobVars, preview, hoverVars, configVars>>

InitTexts ==
    /\ InitJobs /\ InitPreview /\ InitHover /\ InitEscape /\ InitConfig
    /\ pdb_file \in Texts(Chars)
    /\ hotspots_text = <<>>
    /\ is_cyclic = FALSE

SpecEscape == InitTexts /\ [][NextEscape]_vars

\* generate_config_yaml on every hotspot text of at most MaxLen characters
NextConfig == generate_config_yaml /\ UNCHANGED <<jobVars, preview, hoverVars, escapeVars>>

InitHotspots ==
    /\ InitJobs /\ InitPreview /\ InitHover /\ InitEscape /\ InitConfig
    /\ pdb_file = <<>>
    /\ hotspots_text \in Texts(HotspotChars)
    /\ is_cyclic \in BOOLEAN

SpecConfig == InitHotspots /\ [][NextConfig]_vars

(***************************************************************************)
(* Properties of run_boltzgen_task                                         *)
(***************************************************************************)
Range(seq) == {seq[i] : i \in 1..Len(seq)}

IsPrefix(s, t) == Len(s) <= Len(t) /\ \A i \in 1..Len(s) : s[i] = t[i]

\* the files a result directory counts: the two structure-file extensions
StructureFiles(d) == IF d.exists THEN {f \in d.files : f.ext \in {"pdb", "cif"}} ELSE {}

\* the call is over, by a return or by an exception
Ended(job) == job.pc \in {"done", "raised"}

\* C1: a run without an input file, or whose source file could not be copied,
\* ends by returning an error message without a viewer, and the subprocess
\* was not invoked in it.
C1_MissingInputReported ==
    \A j \in Jobs :
        (Ended(jobs[j]) /\ (jobs[j].input_file = None \/ jobs[j].io.copy = "failed"))
        => /\ jobs[j].io.launch = "none"
           /\ jobs[j].result.returned
           /\ jobs[j].result.viewer = NoViewer

\* C2 as claimed: a run whose subprocess was launched and that found a .pdb
\* or .cif file in final_ranked_designs/ or in intermediate_designs/ returns
\* a viewer and the log, not the "no results" error.
C2_AnyOutputFileShown ==
    \A j \in Jobs :
        (jobs[j].pc = "done" /\ jobs[j].io.launch = "ok"
            /\ StructureFiles(jobs[j].seen.final) \cup StructureFiles(jobs[j].seen.inter) # {})
        => /\ jobs[j].result.viewer # NoViewer
           /\ jobs[j].result.text.kind = "logs"

\* the directory the amended C2 speaks of
SelectedDir(jd) == IF jd.final.exists THEN jd.final ELSE jd.inter

\* C2 amended: a run whose subprocess was launched, whatever its exit status,
\* and that found a .pdb or .cif file in the selected directory
\* (final_ranked_designs/ when it exists, else intermediate_designs/) returns
\* the renderer's output for one of these files, the viewer when the file
\* could be read, together with the captured log.
C2_SelectedDirFileShown ==
    \A j \in Jobs :
        (jobs[j].pc = "done" /\ jobs[j].io.launch = "ok"
            /\ StructureFiles(SelectedDir(jobs[j].seen)) # {})
        => /\ jobs[j].result.viewer.kind \in {"iframe", "error"}
           /\ jobs[j].result.viewer.file \in StructureFiles(SelectedDir(jobs[j].seen))
           /\ jobs[j].io.read = "ok" => jobs[j].result.viewer.kind = "iframe"
           /\ jobs[j].result.text = [kind |-> "logs", exit |-> jobs[j].exit]

\* C2 witness: the subprocess exited nonzero, left one .pdb file in
\* intermediate_designs/ and no final_ranked_designs/, and the viewer was returned
C2_Witness ==
    \E j \in Jobs :
        /\ jobs[j].pc = "done" /\ jobs[j].exit = 1
        /\ ~jobs[j].seen.final.exists
        /\ jobs[j].seen.inter = Dir({[stem |-> "rank1", ext |-> "pdb"]})
        /\ jobs[j].result.viewer.kind = "iframe"

\* C3: the files located are exactly the .pdb/.cif files of
\* final_ranked_designs/ when it exists, those of intermediate_designs/ when it
\* does not, and none, without an exception, when neither exists.
C3_LocatePrefersPrimary ==
    \A j \in Jobs :
        jobs[j].io.launch = "ok" /\ jobs[j].pc # "ran"
        => /\ Range(jobs[j].generated_files) =
                 IF jobs[j].seen.final.exists THEN StructureFiles(jobs[j].seen.final)
                 ELSE IF jobs[j].seen.inter.exists THEN StructureFiles(jobs[j].seen.inter)
                 ELSE {}
           /\ Len(jobs[j].generated_files) = Cardinality(Range(jobs[j].generated_files))
           /\ jobs[j].pc # "raised"

\* C3 witness: both directories held structure files when the results were located
C3_Witness ==
    \E j \in Jobs :
        /\ jobs[j].pc = "located"
        /\ StructureFiles(jobs[j].seen.final) # {}
        /\ StructureFiles(jobs[j].seen.inter) # {}
        /\ StructureFiles(jobs[j].seen.inter) # StructureFiles(jobs[j].seen.final)

\* C8: no two calls of run_boltzgen_task use the same job directory.
C8_ExclusiveWorkspace ==
    \A j, k \in Jobs :
        (j # k /\ jobs[j].job_id # 0 /\ jobs[k].job_id # 0)
        => jobs[j].job_id # jobs[k].job_id

\* the order of the steps of a run
Steps == <<"copy", "spec", "launch", "locate", "render">>

\* C10: the steps of a run happen in the order copy, specification, launch,
\* locate, render, each at most once; the subprocess is launched only after the
\* specification was written; a specification failure ends the run with
\* "Config Error" and a launch failure with "System Error", with no later step.
C10_StepOrder ==
    \A j \in Jobs :
        /\ IsPrefix(jobs[j].trace, Steps)
        /\ jobs[j].io.launch # "none" => jobs[j].io.spec = "ok"
        /\ jobs[j].io.spec = "failed"
              => /\ jobs[j].pc = "done"
                 /\ jobs[j].trace = <<"copy", "spec">>
                 /\ jobs[j].result = Return(NoViewer, "Config Error")
        /\ jobs[j].io.launch = "failed"
              => /\ jobs[j].pc = "done"
                 /\ jobs[j].trace = <<"copy", "spec", "launch">>
                 /\ jobs[j].result = Return(NoViewer, "System Error")

\* C10 witness: one run ended at the specification, another at the launch
C10_Witness ==
    \E j, k \in Jobs :
        /\ jobs[j].io.spec = "failed" /\ jobs[j].pc = "done"
        /\ jobs[k].io.launch = "failed" /\ jobs[k].pc = "done"

(***************************************************************************)
(* Properties of the renderer                                              *)
(***************************************************************************)
\* C7: the emitted document parses the embedded text in the format of the
\* file's extension, for the upload preview and for the located result.
C7_FormatMatchesExtension ==
    /\ preview.html.kind = "iframe" => preview.html.format = preview.html.file.ext
    /\ \A j \in Jobs :
          (jobs[j].result.returned /\ jobs[j].result.viewer.kind = "iframe")
          => jobs[j].result.viewer.format = jobs[j].result.viewer.file.ext

\* C9: for a path whose file cannot be opened or read the renderer returns the
\* error fragment and raises nothing, from the upload preview and at the end
\* of a run.
C9_UnreadableFileGivesErrorFragment ==
    /\ preview.html.outcome = "return"
    /\ (preview.x # None /\ ~preview.readOk)
          => (preview.html.kind = "error" /\ preview.html.file = preview.x)
    /\ \A j \in Jobs :
          jobs[j].io.read = "failed"
          => /\ jobs[j].pc = "done"
             /\ jobs[j].result.returned
             /\ jobs[j].result.viewer.kind = "error"
             /\ jobs[j].result.viewer.file = jobs[j].generated_files[1]

\* C9 witness: the preview and the end of a run both met an unreadable file
C9_Witness ==
    /\ preview.x # None /\ ~preview.readOk
    /\ \E j \in Jobs : jobs[j].io.read = "failed"

\* the labels the viewer shows at an atom
LabelsAt(labels, a) == {l \in labels : l.position = a}

\* C4: after any hover events every atom has at most one live label and the
\* viewer's labels are exactly those attached to atoms; hover-enter on a
\* labeled atom creates no second label, hover-leave on a labeled atom removes
\* its label, hover-leave on an unlabeled atom changes nothing.
C4_OneLabelPerAtom ==
    /\ \A a \in Atoms : Cardinality(LabelsAt(viewerLabels, a)) <= 1
    /\ \A a \in Atoms : atomLabel[a] # NoLabel
          => LabelsAt(viewerLabels, a) = {[id |-> atomLabel[a], position |-> a]}
    /\ \A l \in viewerLabels : atomLabel[l.position] = l.id
    /\ (event.type = "enter" /\ event.atomLabel[event.atom] # NoLabel)
          => (atomLabel = event.atomLabel /\ viewerLabels = event.viewerLabels)
    /\ (event.type = "leave" /\ event.atomLabel[event.atom] # NoLabel)
          => /\ atomLabel[event.atom] = NoLabel
             /\ viewerLabels = event.viewerLabels \ LabelsAt(event.viewerLabels, event.atom)
    /\ (event.type = "leave" /\ event.atomLabel[event.atom] = NoLabel)
          => (atomLabel = event.atomLabel /\ viewerLabels = event.viewerLabels)

\* C4 witness: hover-enter came again on a labeled atom while another atom
\* had a label too
C4_Witness ==
    /\ event.type = "enter"
    /\ event.atomLabel[event.atom] # NoLabel
    /\ Cardinality(viewerLabels) >= 2

\* a JavaScript single-quoted string literal with this body ends at a quote
\* that no backslash escapes
RECURSIVE HasUnescapedQuote(_)
HasUnescapedQuote(s) ==
    IF s = <<>> THEN FALSE
    ELSE IF Head(s) = BS
         THEN Len(s) >= 2 /\ HasUnescapedQuote(Tail(Tail(s)))
         ELSE Head(s) = SQ \/ HasUnescapedQuote(Tail(s))

HasRawLineBreak(s) == \E i \in 1..Len(s) : s[i] \in {CR, LF}

\* C5: the payload between the quotes of pdbData holds no unescaped single
\* quote and no raw line break, whatever the structure file holds.
C5_PayloadStaysInsideString ==
    render_pc = "embedded"
    => (~HasUnescapedQuote(escaped_pdb) /\ ~HasRawLineBreak(escaped_pdb))

(***************************************************************************)
(* Properties of generate_config_yaml                                      *)
(***************************************************************************)
\* a text without its whitespace characters
RECURSIVE WithoutWhitespace(_)
WithoutWhitespace(s) ==
    IF s = <<>> THEN <<>>
    ELSE (IF Head(s) \in Whitespace THEN <<>> ELSE <<Head(s)>>) \o WithoutWhitespace(Tail(s))

\* C6: for a hotspot text that is not empty after trimming, the binding
\* annotation is the text without its whitespace characters; for an empty or
\* whitespace-only text the target entity has no binding_types field.
C6_BindingWithoutWhitespace ==
    config_data.entities # <<>>
    => LET file == config_data.entities[2].file
       IN IF WithoutWhitespace(hotspots_text) # <<>>
          THEN /\ "binding_types" \in DOMAIN file
               /\ file.binding_types[1].binding = WithoutWhitespace(hotspots_text)
          ELSE "binding_types" \notin DOMAIN file

====
